---------------------------- MODULE Spec2Model ----------------------------
(***************************************************************************)
(* A model of the COFF linker core: ArchiveFile::getMember, the liveness   *)
(* walk of SectionChunk::markLive, SectionChunk::applyReloc and the        *)
(* layout and emission steps of Writer::write.                             *)
(*                                                                         *)
(* Section names are sequences of character codes, so that stripDollar    *)
(* and the name comparisons are computed, not assumed.                     *)
(***************************************************************************)
EXTENDS Integers, Sequences, FiniteSets, TLC

(***************************************************************************)
(* Bounds of the model.                                                    *)
(***************************************************************************)
MaxChunks == 2
\* ArchiveFile: symbols and members of the archive, getMember calls made.
NumSymbols == 3
NumMembers == 2
MaxCalls == 3
\* Liveness: chunks of the object file, relocations per chunk, and calls of
\* markLive from outside.
NumChunks == 3
MaxRelocs == 1
MaxRoots == 2
\* Relocation: bytes of the output buffer, relocations applied in a run.
BufSize == 20
MaxApplied == 2
\* ImportTable: symbols imported from the DLL.
MaxImports == 3
\* ObjectFile: sections and symbols of the COFF file.
MaxObjSections == 2
MaxObjSymbols == 2

(***************************************************************************)
(* Program constants.                                                      *)
(***************************************************************************)
PageSize == 4096
FileAlignment == 512
DOSStubSize == 64
NumberfOfDataDirectory == 16
PEMagicSize == 4
CoffFileHeaderSize == 20
PE32PlusHeaderSize == 112
DataDirectorySize == 8
CoffSectionSize == 40
HeaderSize ==
  DOSStubSize + PEMagicSize + CoffFileHeaderSize + PE32PlusHeaderSize
    + DataDirectorySize * NumberfOfDataDirectory
FirstRVA == 4096
Dollar == 36

\* ".text", ".text$a", ".data", "" and "$a" as character codes.
NameText == <<46, 116, 101, 120, 116>>
NameTextA == <<46, 116, 101, 120, 116, 36, 97>>
NameData == <<46, 100, 97, 116, 97>>
NameEmpty == <<>>
NameDollarA == <<36, 97>>

ChunkNames == {NameText, NameTextA, NameData, NameEmpty, NameDollarA}
ChunkSizes == {0, 1, 5000}
\* Values of the alignment field (Characteristics & 0x00F00000) >> 20.
AlignFields == {0, 1, 5, 14}

(***************************************************************************)
(* Undefined behaviour is a choice over outcomes.                          *)
(*  - uint64_t(1) << 0xFFFFFFFF (alignment field 0): the shift count is    *)
(*    masked to 63 ("masked", Align = 2^63) or the bit is shifted out      *)
(*    ("zero", Align = 0, and RoundUpToAlignment divides by zero).         *)
(*  - OutputSections.back() on an empty vector, and a call through the     *)
(*    null Buffer: the process dies ("crash") or the access lands in       *)
(*    memory that is not the object ("stray").                             *)
(***************************************************************************)
UBShiftOutcomes == {"masked", "zero"}
UBAccessOutcomes == {"crash", "stray"}
\* What a stray read of Header.VirtualSize / SizeOfRawData may yield.
UBJunk == {0, 8}

VARIABLES
  \* Writer
  Sections, OutputSections, EndOfSectionTable, SectionTotalSizeDisk,
  SectionTotalSizeMemory, Buffer, SectionTable, PE, pc, trace, ub,
  \* ArchiveFile: the archive's symbol index (symbol -> member, 0 when
  \* Sym->getMember() fails), whether a member's buffer can be read, the
  \* Seen set, and the getMember calls made with their results
  arMember, arReadable, Seen, calls,
  \* Liveness: each chunk's relocation targets, the symbol bodies, the
  \* parent given by each chunk's section definition, the chunks' Live,
  \* IsAssocChild and AssocChildren, the call stack of markLive, the chunks
  \* markLive was called on from outside, with Live as it was at the last
  \* such call, and the steps the running call has taken
  Relocs, AssocParent, Live, IsAssocChild, AssocChildren, stack, roots,
  LiveAtCall, steps,
  \* Relocation: the output buffer's bytes, the chunk being patched, the
  \* relocation applied last with the buffer as it was before, whether a
  \* fatal error was reported, and the number of relocations applied
  Config, OutBuf, RelChunk, LastRel, OutBufBefore, Fatal, applied,
  \* ImportTable: the constructor's Symbols argument, the chunks it has
  \* allocated (a chunk pointer is its place in heap, 0 is null), the
  \* members of the ImportTable, and the constructor's position
  Symbols, heap, DLLName, DirTab, HintNameTables, LookupTables,
  AddressTables, impPc, impI,
  \* ObjectFile: what COFFFile yields for each section and symbol, the
  \* file's Chunks (0 is an empty pointer), Directives, SparseSymbolBodies,
  \* SymbolBodies, LastSectionNumber, and the constructor's position
  COFFSections, COFFSymbols, ObjChunks, Directives, SparseSymbolBodies,
  SymbolBodies, LastSectionNumber, objPc, objI

writerVars ==
  <<Sections, OutputSections, EndOfSectionTable, SectionTotalSizeDisk,
    SectionTotalSizeMemory, Buffer, SectionTable, PE, pc, trace, ub>>

archiveVars == <<arMember, arReadable, Seen, calls>>

liveVars ==
  <<Relocs, AssocParent, Live, IsAssocChild, AssocChildren, stack, roots,
    LiveAtCall, steps>>

relocVars == <<Config, OutBuf, RelChunk, LastRel, OutBufBefore, Fatal, applied>>

importVars ==
  <<Symbols, heap, DLLName, DirTab, HintNameTables, LookupTables,
    AddressTables, impPc, impI>>

objectVars ==
  <<COFFSections, COFFSymbols, ObjChunks, Directives, SparseSymbolBodies,
    SymbolBodies, LastSectionNumber, objPc, objI>>

vars ==
  <<writerVars, archiveVars, liveVars, relocVars, importVars, objectVars>>

\* What the actions of one component leave alone.
notWriterVars == <<archiveVars, liveVars, relocVars, importVars, objectVars>>
notArchiveVars == <<writerVars, liveVars, relocVars, importVars, objectVars>>
notLiveVars == <<writerVars, archiveVars, relocVars, importVars, objectVars>>
notRelocVars == <<writerVars, archiveVars, liveVars, importVars, objectVars>>
notImportVars == <<writerVars, archiveVars, liveVars, relocVars, objectVars>>
notObjectVars == <<writerVars, archiveVars, liveVars, relocVars, importVars>>

Null == [null |-> TRUE]

(***************************************************************************)
(* Helpers of Writer.cpp.                                                  *)
(***************************************************************************)
Pow2(n) == IF n = 0 THEN 1 ELSE 2 ^ n

\* llvm::RoundUpToAlignment on values below 2^31.
RoundUpToAlignment(Value, Align) == ((Value + Align - 1) \div Align) * Align

\* getSectionAlignment: the exponent of the alignment, or "div0" when the
\* shifted-out outcome makes the alignment 0.  u is the outcome of the
\* undefined shift, used only for field 0.
getSectionAlignment(field, u) ==
  IF field >= 1 THEN field - 1
  ELSE IF u = "masked" THEN 63 ELSE -1

\* RoundUpToAlignment(v, 1 << e) stored back into a 32-bit header field:
\* for e >= 32 the 64-bit result is 0 or 2^e, both 0 after truncation.
RoundUpField(v, e) == IF e >= 32 THEN 0 ELSE RoundUpToAlignment(v, Pow2(e))

\* stripDollar: Name.substr(0, Name.find('$')).
RECURSIVE find(_, _, _)
find(Name, c, i) ==
  IF i > Len(Name) THEN 0
  ELSE IF Name[i] = c THEN i ELSE find(Name, c, i + 1)

stripDollar(Name) ==
  LET p == find(Name, Dollar, 1)
  IN IF p = 0 THEN Name ELSE SubSeq(Name, 1, p - 1)

\* operator< of StringRef: lexicographic on the character codes.
RECURSIVE NameLess(_, _)
NameLess(A, B) ==
  IF B = <<>> THEN FALSE
  ELSE IF A = <<>> THEN TRUE
  ELSE IF Head(A) # Head(B) THEN Head(A) < Head(B)
  ELSE NameLess(Tail(A), Tail(B))

(***************************************************************************)
(* OutputSection.                                                          *)
(***************************************************************************)
NewOutputSection ==
  [Name |-> <<>>, VirtualSize |-> 0, SizeOfRawData |-> 0,
   VirtualAddress |-> 0, PointerToRawData |-> 0, Sections |-> <<>>]

\* OutputSection::addSection with the alignment exponent e already decoded.
\* Yields the section and the chunk (idx is the chunk's place in Sections).
addSection(Out, Sec, idx, e) ==
  LET vs == RoundUpField(Out.VirtualSize, e)
      sr == RoundUpField(Out.SizeOfRawData, e)
  IN [out |-> [Out EXCEPT !.VirtualSize = vs + Sec.Size,
                          !.SizeOfRawData = sr + Sec.Size,
                          !.Sections = Append(@, idx)],
      sec |-> [Sec EXCEPT !.RVA = vs, !.FileOffset = sr]]

\* std::stable_sort of a chunk list by Name: insertion keeps equal names in
\* their order.
RECURSIVE InsertByName(_, _, _)
InsertByName(sorted, x, secs) ==
  IF sorted = <<>> THEN <<x>>
  ELSE IF NameLess(secs[x].Name, secs[Head(sorted)].Name)
       THEN <<x>> \o sorted
       ELSE <<Head(sorted)>> \o InsertByName(Tail(sorted), x, secs)

RECURSIVE StableSortFrom(_, _, _, _)
StableSortFrom(list, i, acc, secs) ==
  IF i > Len(list) THEN acc
  ELSE StableSortFrom(list, i + 1, InsertByName(acc, list[i], secs), secs)

\* OutputSection::sort.
sort(Out, secs) ==
  [Out EXCEPT !.Sections = StableSortFrom(Out.Sections, 1, <<>>, secs)]

\* OutputSection::setRVA and setFileOffset: the header field, and every
\* member chunk moved by the section's address.
RECURSIVE AddToChunks(_, _, _, _)
AddToChunks(secs, list, RVA, Off) ==
  IF list = <<>> THEN secs
  ELSE AddToChunks(
         [secs EXCEPT ![Head(list)].RVA = @ + RVA,
                      ![Head(list)].FileOffset = @ + Off],
         Tail(list), RVA, Off)

setRVA(Out, RVA) == [Out EXCEPT !.VirtualAddress = RVA]
setFileOffset(Out, Off) == [Out EXCEPT !.PointerToRawData = Off]

\* finalize without the rounding of SizeOfRawData.
finalizeNoRound(Out) == Out

\* OutputSection::finalize: SizeOfRawData rounded to FileAlignment (the
\* header name is Name cut to 8 characters).
finalize(Out) ==
  [Out EXCEPT !.SizeOfRawData = RoundUpToAlignment(@, FileAlignment)]

(***************************************************************************)
(* Writer::groupSections, as a loop over Sections.  uShift and uBack are   *)
(* the outcomes of the undefined shift and of back() on the empty vector,  *)
(* junk is what a stray read yields.                                       *)
(***************************************************************************)
RECURSIVE GroupLoop(_, _, _, _, _, _, _, _)
GroupLoop(i, secs, outs, Last, uShift, uBack, junk, u) ==
  IF i > Len(secs)
  THEN [Sections |-> secs, OutputSections |-> outs, crashed |-> FALSE, ub |-> u]
  ELSE
    LET Name == stripDollar(secs[i].Name)
        outs1 == IF Name # Last THEN Append(outs, NewOutputSection) ELSE outs
        e == getSectionAlignment(secs[i].AlignField, uShift)
        u1 == IF secs[i].AlignField = 0 THEN u \cup {"shift"} ELSE u
    IN IF outs1 = <<>>
       THEN \* OutputSections.back() on the empty vector
            IF uBack = "crash"
            THEN [Sections |-> secs, OutputSections |-> outs1,
                  crashed |-> TRUE, ub |-> u \cup {"back"}]
            ELSE GroupLoop(i + 1,
                           [secs EXCEPT ![i].RVA = junk, ![i].FileOffset = junk],
                           outs1, Name, uShift, uBack, junk, u \cup {"back"})
       ELSE IF e = -1
       THEN \* RoundUpToAlignment divides by the alignment 0
            [Sections |-> secs, OutputSections |-> outs1,
             crashed |-> TRUE, ub |-> u1]
       ELSE
         LET n == Len(outs1)
             r == addSection([outs1[n] EXCEPT !.Name = Name], secs[i], i, e)
         IN GroupLoop(i + 1, [secs EXCEPT ![i] = r.sec],
                      [outs1 EXCEPT ![n] = r.out], Name, uShift, uBack, junk, u1)

SortAll(outs, secs) == [k \in 1..Len(outs) |-> sort(outs[k], secs)]

\* Writer::removeEmptySections: the sections that are kept.
RECURSIVE removeEmpty(_)
removeEmpty(outs) ==
  IF outs = <<>> THEN <<>>
  ELSE IF Head(outs).VirtualSize = 0 THEN removeEmpty(Tail(outs))
       ELSE <<Head(outs)>> \o removeEmpty(Tail(outs))

\* Writer::assignAddresses, as a loop over OutputSections.
RECURSIVE AssignLoop(_, _, _, _, _)
AssignLoop(k, outs, secs, RVA, FileOff) ==
  IF k > Len(outs)
  THEN [OutputSections |-> outs, Sections |-> secs, RVA |-> RVA, FileOff |-> FileOff]
  ELSE
    LET o == setFileOffset(setRVA(outs[k], RVA), FileOff)
    IN AssignLoop(k + 1, [outs EXCEPT ![k] = o],
                  AddToChunks(secs, o.Sections, RVA, FileOff),
                  RVA + RoundUpToAlignment(o.VirtualSize, PageSize),
                  FileOff + RoundUpToAlignment(o.SizeOfRawData, FileAlignment))

\* assignAddresses with RVA and FileOff starting at 0.
assignAddressesFromZero(outs, secs, EOST) == AssignLoop(1, outs, secs, 0, 0)

assignAddresses(outs, secs, EOST) == AssignLoop(1, outs, secs, FirstRVA, EOST)

(***************************************************************************)
(* The Writer as a state machine: pc is the step of Writer::write that     *)
(* runs next, trace the steps write has invoked so far.                    *)
(***************************************************************************)
ChunkInputs ==
  [Name : ChunkNames, Size : ChunkSizes, AlignField : AlignFields,
   RVA : {0}, FileOffset : {0}]

SectionLists == UNION {[1..n -> ChunkInputs] : n \in 0..MaxChunks}

NoPE ==
  [NumberOfSections |-> 0, SizeOfImage |-> 0, SizeOfHeaders |-> 0,
   SizeOfCode |-> 0, BaseOfCode |-> 0]

WriterInit ==
  /\ Sections \in SectionLists
  /\ OutputSections = <<>>
  /\ EndOfSectionTable = 0
  /\ SectionTotalSizeDisk = 0
  /\ SectionTotalSizeMemory = 0
  /\ Buffer = Null
  /\ SectionTable = <<>>
  /\ PE = NoPE
  /\ pc = "groupSections"
  /\ trace = <<>>
  /\ ub = {}

groupSections ==
  /\ pc = "groupSections"
  /\ \E uShift \in UBShiftOutcomes, uBack \in UBAccessOutcomes, junk \in UBJunk :
       LET r == GroupLoop(1, Sections, <<>>, <<>>, uShift, uBack, junk, ub)
       IN /\ Sections' = r.Sections
          /\ ub' = r.ub
          /\ IF r.crashed
             THEN /\ OutputSections' = r.OutputSections
                  /\ pc' = "crashed"
                  /\ UNCHANGED EndOfSectionTable
             ELSE /\ OutputSections' = SortAll(r.OutputSections, r.Sections)
                  /\ EndOfSectionTable' =
                       RoundUpToAlignment(
                         HeaderSize + CoffSectionSize * Len(r.OutputSections),
                         PageSize)
                  /\ pc' = "removeEmptySections"
  /\ trace' = Append(trace, "groupSections")
  /\ UNCHANGED <<SectionTotalSizeDisk, SectionTotalSizeMemory, Buffer,
                 SectionTable, PE>>
  /\ UNCHANGED notWriterVars

removeEmptySections ==
  /\ pc = "removeEmptySections"
  /\ OutputSections' = removeEmpty(OutputSections)
  /\ pc' = "assignAddresses"
  /\ trace' = Append(trace, "removeEmptySections")
  /\ UNCHANGED <<Sections, EndOfSectionTable, SectionTotalSizeDisk,
                 SectionTotalSizeMemory, Buffer, SectionTable, PE, ub>>
  /\ UNCHANGED notWriterVars

assignAddressesStep ==
  /\ pc = "assignAddresses"
  /\ LET r == assignAddresses(OutputSections, Sections, EndOfSectionTable)
     IN /\ OutputSections' = r.OutputSections
        /\ Sections' = r.Sections
        /\ SectionTotalSizeDisk' =
             RoundUpToAlignment(r.FileOff - EndOfSectionTable, FileAlignment)
        /\ SectionTotalSizeMemory' =
             RoundUpToAlignment(r.RVA - FirstRVA, PageSize)
  /\ pc' = "openFile"
  /\ trace' = Append(trace, "assignAddresses")
  /\ UNCHANGED <<EndOfSectionTable, Buffer, SectionTable, PE, ub>>
  /\ UNCHANGED notWriterVars

\* FileOutputBuffer::create succeeds or fails; on failure openFile prints
\* and returns, leaving Buffer null.
openFile ==
  /\ pc = "openFile"
  /\ \E created \in BOOLEAN :
       Buffer' = IF created
                 THEN [Size |-> EndOfSectionTable + SectionTotalSizeDisk,
                       HeaderWritten |-> FALSE, Copied |-> {},
                       Committed |-> FALSE]
                 ELSE Null
  /\ pc' = "writeHeader"
  /\ trace' = Append(trace, "openFile")
  /\ UNCHANGED <<Sections, OutputSections, EndOfSectionTable,
                 SectionTotalSizeDisk, SectionTotalSizeMemory, SectionTable,
                 PE, ub>>
  /\ UNCHANGED notWriterVars

\* A step that goes through the null Buffer: undefined behaviour.
ThroughNull(next) ==
  /\ Buffer = Null
  /\ \E u \in UBAccessOutcomes : pc' = IF u = "crash" THEN "crashed" ELSE next
  /\ ub' = ub \cup {"null"}

writeHeader ==
  /\ pc = "writeHeader"
  /\ trace' = Append(trace, "writeHeader")
  /\ \/ /\ ThroughNull("writeSections")
        /\ UNCHANGED <<Buffer, PE>>
     \/ /\ Buffer # Null
        /\ Buffer' = [Buffer EXCEPT !.HeaderWritten = TRUE]
        /\ PE' = [PE EXCEPT
                    !.NumberOfSections = Len(OutputSections),
                    !.SizeOfImage = EndOfSectionTable + SectionTotalSizeMemory,
                    !.SizeOfHeaders =
                      RoundUpToAlignment(
                        HeaderSize + CoffSectionSize * Len(OutputSections),
                        FileAlignment)]
        /\ pc' = "writeSections"
        /\ UNCHANGED ub
  /\ UNCHANGED <<Sections, OutputSections, EndOfSectionTable,
                 SectionTotalSizeDisk, SectionTotalSizeMemory, SectionTable>>
  /\ UNCHANGED notWriterVars

\* The byte ranges writeSections copies: <<FileOffset, size>> per chunk.
CopyRanges(secs) == {<<secs[i].FileOffset, secs[i].Size>> : i \in 1..Len(secs)}

OutOfBuffer(secs, size) ==
  \E i \in 1..Len(secs) :
    secs[i].Size > 0 /\ secs[i].FileOffset + secs[i].Size > size

FinalizeAll(outs) == [k \in 1..Len(outs) |-> finalize(outs[k])]

writeSections ==
  /\ pc = "writeSections"
  /\ trace' = Append(trace, "writeSections")
  /\ \/ /\ ThroughNull("backfillHeaders")
        \* finalize runs before the first store through SectionTable
        /\ OutputSections' =
             IF pc' = "crashed" /\ OutputSections # <<>>
             THEN [OutputSections EXCEPT ![1] = finalize(@)]
             ELSE FinalizeAll(OutputSections)
        /\ UNCHANGED <<Buffer, SectionTable>>
     \/ /\ Buffer # Null
        /\ OutputSections' = FinalizeAll(OutputSections)
        /\ SectionTable' = FinalizeAll(OutputSections)
        /\ Buffer' = [Buffer EXCEPT !.Copied = CopyRanges(Sections)]
        /\ IF OutOfBuffer(Sections, Buffer.Size)
           THEN \* memcpy past the end of the buffer
                /\ \E u \in UBAccessOutcomes :
                     pc' = IF u = "crash" THEN "crashed" ELSE "backfillHeaders"
                /\ ub' = ub \cup {"memcpy"}
           ELSE /\ pc' = "backfillHeaders"
                /\ UNCHANGED ub
  /\ UNCHANGED <<Sections, EndOfSectionTable, SectionTotalSizeDisk,
                 SectionTotalSizeMemory, PE>>
  /\ UNCHANGED notWriterVars

\* The first OutputSection named ".text", or 0.
RECURSIVE FindText(_, _)
FindText(outs, k) ==
  IF k > Len(outs) THEN 0
  ELSE IF outs[k].Name = NameText THEN k ELSE FindText(outs, k + 1)

backfillHeaders ==
  /\ pc = "backfillHeaders"
  /\ trace' = Append(trace, "backfillHeaders")
  /\ LET k == FindText(OutputSections, 1)
     IN IF k = 0
        THEN /\ pc' = "commit"
             /\ UNCHANGED <<PE, ub>>
        ELSE \/ /\ ThroughNull("commit")
                /\ UNCHANGED PE
             \/ /\ Buffer # Null
                /\ PE' = [PE EXCEPT
                            !.SizeOfCode = OutputSections[k].SizeOfRawData,
                            !.BaseOfCode = OutputSections[k].VirtualAddress]
                /\ pc' = "commit"
                /\ UNCHANGED ub
  /\ UNCHANGED <<Sections, OutputSections, EndOfSectionTable,
                 SectionTotalSizeDisk, SectionTotalSizeMemory, Buffer,
                 SectionTable>>
  /\ UNCHANGED notWriterVars

commit ==
  /\ pc = "commit"
  /\ trace' = Append(trace, "commit")
  /\ \/ /\ ThroughNull("done")
        /\ UNCHANGED Buffer
     \/ /\ Buffer # Null
        /\ Buffer' = [Buffer EXCEPT !.Committed = TRUE]
        /\ pc' = "done"
        /\ UNCHANGED ub
  /\ UNCHANGED <<Sections, OutputSections, EndOfSectionTable,
                 SectionTotalSizeDisk, SectionTotalSizeMemory, SectionTable, PE>>
  /\ UNCHANGED notWriterVars

WriterStep ==
  \/ groupSections
  \/ removeEmptySections
  \/ assignAddressesStep
  \/ openFile
  \/ writeHeader
  \/ writeSections
  \/ backfillHeaders
  \/ commit

(***************************************************************************)
(* Claims about the Writer, checked under SpecWriter.                      *)
(***************************************************************************)
Range(f) == {f[i] : i \in DOMAIN f}

Invoked(step) == step \in Range(trace)

\* The chunks (places in Sections) that OutputSection k holds.
Members(k) == Range(OutputSections[k].Sections)

\* The steps of write in the order the specification of the Writer gives.
WriteOrder ==
  <<"groupSections", "removeEmptySections", "assignAddresses", "openFile",
    "writeHeader", "writeSections", "applyRelocations", "backfillHeaders",
    "commit">>

\* C2: a completed Writer::write has run groupSections, removeEmptySections,
\* assignAddresses, openFile, writeHeader, writeSections, applyRelocations,
\* backfillHeaders and commit, in this order, so that the relocations are
\* applied after writeSections and before commit.
C2_WriteRunsTheNineSteps == (pc = "done" /\ ub = {}) => trace = WriteOrder

\* C3: when openFile could not create the output buffer, write aborts:
\* writeHeader, writeSections, backfillHeaders and commit are not invoked.
C3_OpenFailureAborts ==
  (Invoked("openFile") /\ Buffer = Null) =>
    /\ ~Invoked("writeHeader")
    /\ ~Invoked("writeSections")
    /\ ~Invoked("backfillHeaders")
    /\ ~Invoked("commit")

\* C4: after assignAddresses every chunk lies inside the output buffer and
\* inside the image: FileOffset + size <= EndOfSectionTable +
\* SectionTotalSizeDisk and RVA + size <= EndOfSectionTable +
\* SectionTotalSizeMemory.  (Stated for the runs in which groupSections did
\* not reach into the empty OutputSections vector, which is C9's case.)
C4_ChunksInsideFileAndImage ==
  (Invoked("assignAddresses") /\ "back" \notin ub) =>
    \A i \in 1..Len(Sections) :
      /\ Sections[i].FileOffset + Sections[i].Size
           <= EndOfSectionTable + SectionTotalSizeDisk
      /\ Sections[i].RVA + Sections[i].Size
           <= EndOfSectionTable + SectionTotalSizeMemory

\* C5: every header written to the section table has PointerToRawData a
\* multiple of 512, VirtualAddress a multiple of 4096 and SizeOfRawData a
\* multiple of 512.
C5_SectionTableAligned ==
  \A k \in 1..Len(SectionTable) :
    /\ SectionTable[k].PointerToRawData % 512 = 0
    /\ SectionTable[k].VirtualAddress % 4096 = 0
    /\ SectionTable[k].SizeOfRawData % 512 = 0

\* C5 witness: two headers are in the section table and a chunk of one byte
\* made a raw size that is no multiple of 512 before finalize.
C5_Witness ==
  /\ Len(SectionTable) = 2
  /\ \E i \in 1..Len(Sections) : Sections[i].Size = 1

C9_GroupSectionsPartitions ==
  pc = "removeEmptySections" =>
    /\ \A i \in 1..Len(Sections) :
         /\ Cardinality({k \in 1..Len(OutputSections) : i \in Members(k)}) = 1
         /\ \A k \in 1..Len(OutputSections) :
              i \in Members(k) =>
                OutputSections[k].Name = stripDollar(Sections[i].Name)
    /\ \A i \in 1..(Len(Sections) - 1) :
         (\E k \in 1..Len(OutputSections) : {i, i + 1} \subseteq Members(k))
           <=> stripDollar(Sections[i].Name) = stripDollar(Sections[i + 1].Name)

(***************************************************************************)
(* ArchiveFile::getMember.  A member is identified by the address its      *)
(* buffer starts at; arMember[sym] is the member Sym->getMember() yields   *)
(* (0: it fails), arReadable[m] whether It->getMemoryBufferRef() succeeds. *)
(* The result is an error, the empty MemoryBufferRef or the buffer of a    *)
(* member.                                                                 *)
(***************************************************************************)
ArchiveSymbols == 1..NumSymbols
ArchiveMembers == 1..NumMembers

\* The three results of getMember.
ErrorResult == [kind |-> "error", member |-> 0]
EmptyRef == [kind |-> "empty", member |-> 0]
BufferOf(m) == [kind |-> "buffer", member |-> m]

\* getMember without Seen.insert(StartAddr).
getMemberNoInsert(seen, Sym) ==
  IF arMember[Sym] = 0
  THEN [Seen |-> seen, result |-> ErrorResult]
  ELSE LET StartAddr == arMember[Sym]
       IN IF StartAddr \in seen
          THEN [Seen |-> seen, result |-> EmptyRef]
          ELSE [Seen |-> seen,
                result |-> IF arReadable[StartAddr]
                           THEN BufferOf(StartAddr) ELSE ErrorResult]

getMember(seen, Sym) ==
  IF arMember[Sym] = 0
  THEN [Seen |-> seen, result |-> ErrorResult]
  ELSE LET StartAddr == arMember[Sym]
       IN IF StartAddr \in seen
          THEN [Seen |-> seen, result |-> EmptyRef]
          ELSE [Seen |-> seen \cup {StartAddr},
                result |-> IF arReadable[StartAddr]
                           THEN BufferOf(StartAddr) ELSE ErrorResult]

ArchiveInit ==
  /\ arMember \in [ArchiveSymbols -> ArchiveMembers \cup {0}]
  /\ arReadable \in [ArchiveMembers -> BOOLEAN]
  /\ Seen = {}
  /\ calls = <<>>

CallGetMember ==
  /\ Len(calls) < MaxCalls
  /\ \E Sym \in ArchiveSymbols :
       LET r == getMember(Seen, Sym)
       IN /\ Seen' = r.Seen
          /\ calls' = Append(calls, [Sym |-> Sym, result |-> r.result])
  /\ UNCHANGED <<arMember, arReadable>>
  /\ UNCHANGED notArchiveVars

(***************************************************************************)
(* Liveness.  Chunks are 1..NumChunks.  Symbol i <= NumChunks has a        *)
(* DefinedRegular body owning chunk i; the next symbol is a                *)
(* DefinedAbsolute, the last an Undefined.                                 *)
(***************************************************************************)
Chunks == 1..NumChunks
SymAbsolute == NumChunks + 1
SymUndefined == NumChunks + 2
LiveSymbols == 1..(NumChunks + 2)

\* dyn_cast<Defined>(Body): every body but the Undefined one.
isDefined(sym) == sym # SymUndefined

\* Defined::markLive: a DefinedRegular marks the chunk it owns, the other
\* Defined bodies do nothing.  The chunk marked, or 0.
DefinedMarkLive(sym) == IF sym \in Chunks THEN sym ELSE 0

RelocLists == UNION {[1..n -> LiveSymbols] : n \in 0..MaxRelocs}

\* SectionChunk::addAssociative on the chunk tables.
addAssociative(t, Parent, Child) ==
  [IsAssocChild |-> [t.IsAssocChild EXCEPT ![Child] = TRUE],
   AssocChildren |-> [t.AssocChildren EXCEPT ![Parent] = Append(@, Child)]]

\* ObjectFile::createSymbolBody over the sections' first symbols: a section
\* whose definition names a parent that has a chunk is registered with it.
RECURSIVE RegisterFrom(_, _, _)
RegisterFrom(c, parent, t) ==
  IF c > NumChunks THEN t
  ELSE RegisterFrom(c + 1, parent,
                    IF parent[c] # 0 THEN addAssociative(t, parent[c], c) ELSE t)

NoAssoc ==
  [IsAssocChild |-> [c \in Chunks |-> FALSE],
   AssocChildren |-> [c \in Chunks |-> <<>>]]

LiveInit ==
  /\ Relocs \in [Chunks -> RelocLists]
  /\ AssocParent \in [Chunks -> Chunks \cup {0}]
  /\ IsAssocChild = RegisterFrom(1, AssocParent, NoAssoc).IsAssocChild
  /\ AssocChildren = RegisterFrom(1, AssocParent, NoAssoc).AssocChildren
  /\ Live = [c \in Chunks |-> FALSE]
  /\ stack = <<>>
  /\ roots = <<>>
  /\ LiveAtCall = [c \in Chunks |-> FALSE]
  /\ steps = 0

\* A frame of SectionChunk::markLive: the chunk, and the place in its body:
\* 0 at entry, k for the k-th relocation, then the associative children.
Frame(c, at) == [chunk |-> c, at |-> at]

Top == stack[Len(stack)]
Pop == SubSeq(stack, 1, Len(stack) - 1)
Advance == [stack EXCEPT ![Len(stack)].at = @ + 1]

\* markLive is called from outside (the resolver's seeding) on chunk c.
CallMarkLive ==
  /\ stack = <<>>
  /\ Len(roots) < MaxRoots
  /\ \E c \in Chunks :
       /\ roots' = Append(roots, c)
       /\ stack' = <<Frame(c, 0)>>
  /\ LiveAtCall' = Live
  /\ steps' = 0
  /\ UNCHANGED <<Relocs, AssocParent, Live, IsAssocChild, AssocChildren>>
  /\ UNCHANGED notLiveVars

\* markLive without the test of Live.
markLiveEntryNoTest(c) ==
  /\ Live' = [Live EXCEPT ![c] = TRUE]
  /\ stack' = Advance

\* if (Live) return; Live = true;
markLiveEntry(c) ==
  IF Live[c]
  THEN /\ stack' = Pop
       /\ UNCHANGED Live
  ELSE /\ Live' = [Live EXCEPT ![c] = TRUE]
       /\ stack' = Advance

\* One iteration of the relocation loop.
markLiveReloc(c, k) ==
  LET sym == Relocs[c][k]
      target == IF isDefined(sym) THEN DefinedMarkLive(sym) ELSE 0
  IN /\ stack' = IF target # 0
                 THEN Append(Advance, Frame(target, 0))
                 ELSE Advance
     /\ UNCHANGED Live

\* The loop over AssocChildren without the call.
markLiveChildSkipped(c, k) ==
  /\ stack' = Advance
  /\ UNCHANGED Live

\* One iteration of the loop over AssocChildren.
markLiveChild(c, k) ==
  /\ stack' = Append(Advance, Frame(AssocChildren[c][k], 0))
  /\ UNCHANGED Live

markLiveReturn ==
  /\ stack' = Pop
  /\ UNCHANGED Live

\* The next step of the running markLive call.
markLive ==
  /\ stack # <<>>
  /\ LET c == Top.chunk
         at == Top.at
         nr == Len(Relocs[c])
     IN \/ at = 0 /\ markLiveEntry(c)
        \/ at \in 1..nr /\ markLiveReloc(c, at)
        \/ at > nr /\ at <= nr + Len(AssocChildren[c]) /\ markLiveChild(c, at - nr)
        \/ at > nr + Len(AssocChildren[c]) /\ markLiveReturn
  /\ steps' = steps + 1
  /\ UNCHANGED <<Relocs, AssocParent, IsAssocChild, AssocChildren, roots,
                 LiveAtCall>>
  /\ UNCHANGED notLiveVars

(***************************************************************************)
(* Relocation.  A 64-bit or 32-bit value is the sequence of its bytes,     *)
(* least significant first, as the buffer holds it; uint64_t arithmetic is *)
(* addition with carry over 8 bytes, and the conversion to int32_t or      *)
(* int16_t keeps the low bytes.                                            *)
(***************************************************************************)
\* The bytes of n (0 <= n < 2^31), least significant first.
RECURSIVE Bytes(_, _)
Bytes(n, k) == IF k = 0 THEN <<>> ELSE <<n % 256>> \o Bytes(n \div 256, k - 1)

RECURSIVE AddCarry(_, _, _)
AddCarry(a, b, carry) ==
  IF a = <<>> THEN <<>>
  ELSE LET t == Head(a) + Head(b) + carry
       IN <<t % 256>> \o AddCarry(Tail(a), Tail(b), t \div 256)

\* a + b and a - b in unsigned arithmetic of Len(a) bytes.
Add(a, b) == AddCarry(a, b, 0)
Sub(a, b) == AddCarry(a, [i \in 1..Len(b) |-> 255 - b[i]], 1)

Trunc(v, k) == SubSeq(v, 1, k)

\* Values of Config->ImageBase: 0x140000000, 0x400000, 0xFFFFFFFFFFFF0000.
ImageBases ==
  {<<0, 0, 0, 64, 1, 0, 0, 0>>, <<0, 0, 64, 0, 0, 0, 0, 0>>,
   <<0, 0, 255, 255, 255, 255, 255, 255>>}

read(buf, Off, k) == SubSeq(buf, Off + 1, Off + k)
write(buf, Off, v) ==
  [i \in 1..Len(buf) |->
     IF i > Off /\ i <= Off + Len(v) THEN v[i - Off] ELSE buf[i]]

\* A patch that stores V instead of adding it to the field.
store32(buf, Off, V) == write(buf, Off, Trunc(V, 4))

\* add16, add32, add64: V arrives as int32_t (int64_t for add64).
add16(buf, Off, V) == write(buf, Off, Add(read(buf, Off, 2), Trunc(V, 2)))
add32(buf, Off, V) == write(buf, Off, Add(read(buf, Off, 4), Trunc(V, 4)))
add64(buf, Off, V) == write(buf, Off, Add(read(buf, Off, 8), V))

RelocTypes ==
  {"ABSOLUTE", "ADDR64", "ADDR32", "ADDR32NB", "REL32", "REL32_1", "REL32_2",
   "REL32_3", "REL32_4", "REL32_5", "SECTION", "SECREL", "SECREL7"}

\* SectionChunk::applyReloc: the buffer afterwards, and whether
\* report_fatal_error was called.  Rel.S is the target's getRVA().
applyReloc(buf, C, Rel, ImageBase) ==
  LET Off == C.FileOff + Rel.VirtualAddress
      S == Bytes(Rel.S, 8)
      P == Bytes(C.RVA + Rel.VirtualAddress, 8)
      SP == Sub(S, P)
      ok(b) == [buf |-> b, fatal |-> FALSE]
  IN CASE Rel.Type = "ADDR32" -> ok(add32(buf, Off, Add(ImageBase, S)))
       [] Rel.Type = "ADDR64" -> ok(add64(buf, Off, Add(ImageBase, S)))
       [] Rel.Type = "ADDR32NB" -> ok(add32(buf, Off, S))
       [] Rel.Type = "REL32" -> ok(add32(buf, Off, Sub(SP, Bytes(4, 8))))
       [] Rel.Type = "REL32_1" -> ok(add32(buf, Off, Sub(SP, Bytes(5, 8))))
       [] Rel.Type = "REL32_2" -> ok(add32(buf, Off, Sub(SP, Bytes(6, 8))))
       [] Rel.Type = "REL32_3" -> ok(add32(buf, Off, Sub(SP, Bytes(7, 8))))
       [] Rel.Type = "REL32_4" -> ok(add32(buf, Off, Sub(SP, Bytes(8, 8))))
       [] Rel.Type = "REL32_5" -> ok(add32(buf, Off, Sub(SP, Bytes(9, 8))))
       [] Rel.Type = "SECTION" -> ok(add16(buf, Off, Bytes(C.OutIndex, 4)))
       [] Rel.Type = "SECREL" ->
            ok(add32(buf, Off, Sub(S, Bytes(C.OutRVA, 8))))
       [] OTHER -> [buf |-> buf, fatal |-> TRUE]

\* The chunk patched: its RVA, FileOff and size, and its output section.
RelocChunks ==
  {[RVA |-> 4112, FileOff |-> 4, Size |-> 8, OutRVA |-> 4096, OutIndex |-> 1],
   [RVA |-> 8192, FileOff |-> 6, Size |-> 8, OutRVA |-> 8192, OutIndex |-> 2]}

\* Relocations of the stream: place in the chunk, type, target RVA.
RelocInputs ==
  [VirtualAddress : {0, 3}, Type : RelocTypes, S : {4096, 4160}]

\* What the buffer holds after writeSections: the objects' bytes (addends).
BufferContents ==
  {[i \in 1..BufSize |-> 0], [i \in 1..BufSize |-> 255],
   [i \in 1..BufSize |-> (i * 37) % 256]}

NoRel == [VirtualAddress |-> 0, Type |-> "none", S |-> 0]

RelocInit ==
  /\ Config \in [ImageBase : ImageBases]
  /\ OutBuf \in BufferContents
  /\ RelChunk \in RelocChunks
  /\ LastRel = NoRel
  /\ OutBufBefore = OutBuf
  /\ Fatal = FALSE
  /\ applied = 0

\* One iteration of SectionChunk::applyRelocations.
applyRelocations ==
  /\ ~Fatal
  /\ applied < MaxApplied
  /\ \E Rel \in RelocInputs :
       LET r == applyReloc(OutBuf, RelChunk, Rel, Config.ImageBase)
       IN /\ OutBuf' = r.buf
          /\ Fatal' = r.fatal
          /\ LastRel' = Rel
  /\ OutBufBefore' = OutBuf
  /\ applied' = applied + 1
  /\ UNCHANGED <<Config, RelChunk>>
  /\ UNCHANGED notRelocVars

(***************************************************************************)
(* ImportTable::ImportTable, one action per statement or loop iteration.   *)
(***************************************************************************)
\* "f", "ab" and "" as export names; "a" as the DLL's name.
ExportNames == {<<102>>, <<97, 98>>, <<>>}
DLLNames == {<<97>>}

NoChunk ==
  [kind |-> "none", Name |-> <<>>, Size |-> 0, Ref |-> 0,
   LookupTab |-> 0, AddressTab |-> 0]

\* new StringChunk(N), new DirectoryChunk(DLLName), new HintNameChunk(Name)
\* and new LookupChunk(H).  Ref is the chunk the new one points to.
StringChunk(N) == [NoChunk EXCEPT !.kind = "String", !.Name = N]
DirectoryChunk(N) == [NoChunk EXCEPT !.kind = "Directory", !.Ref = N]
HintNameChunk(Name) ==
  [NoChunk EXCEPT !.kind = "HintName", !.Name = Name,
                  !.Size = RoundUpToAlignment(Len(Name) + 4, 2)]
LookupChunk(H) == [NoChunk EXCEPT !.kind = "Lookup", !.Ref = H]

ImportSymbols ==
  UNION {[1..n -> [ExportName : ExportNames, Location : {0}]] :
           n \in 1..MaxImports}

ImportInit ==
  /\ Symbols \in ImportSymbols
  /\ heap = <<>>
  /\ DLLName = 0
  /\ DirTab = 0
  /\ HintNameTables = <<>>
  /\ LookupTables = <<>>
  /\ AddressTables = <<>>
  /\ impPc = "header"
  /\ impI = 1

\* DLLName = new StringChunk(N); DirTab = new DirectoryChunk(DLLName);
createHeader ==
  /\ impPc = "header"
  /\ \E N \in DLLNames :
       heap' = <<StringChunk(N), DirectoryChunk(1)>>
  /\ DLLName' = 1
  /\ DirTab' = 2
  /\ impPc' = "hintnames"
  /\ impI' = 1
  /\ UNCHANGED <<Symbols, HintNameTables, LookupTables, AddressTables>>
  /\ UNCHANGED notImportVars

\* for (DefinedImportData *S : Symbols)
\*   HintNameTables.push_back(new HintNameChunk(S->getExportName()));
pushHintName ==
  /\ impPc = "hintnames"
  /\ IF impI <= Len(Symbols)
     THEN /\ heap' = Append(heap, HintNameChunk(Symbols[impI].ExportName))
          /\ HintNameTables' = Append(HintNameTables, Len(heap) + 1)
          /\ impI' = impI + 1
          /\ impPc' = impPc
     ELSE /\ impPc' = "tables"
          /\ impI' = 1
          /\ UNCHANGED <<heap, HintNameTables>>
  /\ UNCHANGED <<Symbols, DLLName, DirTab, LookupTables, AddressTables>>
  /\ UNCHANGED notImportVars

\* for (HintNameChunk *H : HintNameTables) {
\*   LookupTables.push_back(new LookupChunk(H));
\*   AddressTables.push_back(new LookupChunk(H)); }
pushLookup ==
  /\ impPc = "tables"
  /\ IF impI <= Len(HintNameTables)
     THEN LET H == HintNameTables[impI]
          IN /\ heap' = heap \o <<LookupChunk(H), LookupChunk(H)>>
             /\ LookupTables' = Append(LookupTables, Len(heap) + 1)
             /\ AddressTables' = Append(AddressTables, Len(heap) + 2)
             /\ impI' = impI + 1
             /\ impPc' = impPc
     ELSE /\ impPc' = "locations"
          /\ impI' = 1
          /\ UNCHANGED <<heap, LookupTables, AddressTables>>
  /\ UNCHANGED <<Symbols, DLLName, DirTab, HintNameTables>>
  /\ UNCHANGED notImportVars

\* for (int I = 0, E = Symbols.size(); I < E; ++I)
\*   Symbols[I]->setLocation(AddressTables[I]);
setLocation ==
  /\ impPc = "locations"
  /\ IF impI <= Len(Symbols)
     THEN /\ Symbols' = [Symbols EXCEPT ![impI].Location = AddressTables[impI]]
          /\ impI' = impI + 1
          /\ impPc' = impPc
     ELSE /\ impPc' = "dirtab"
          /\ impI' = 1
          /\ UNCHANGED Symbols
  /\ UNCHANGED <<heap, DLLName, DirTab, HintNameTables, LookupTables,
                 AddressTables>>
  /\ UNCHANGED notImportVars

\* DirTab->LookupTab = LookupTables[0]; DirTab->AddressTab = AddressTables[0];
setDirTab ==
  /\ impPc = "dirtab"
  /\ heap' = [heap EXCEPT ![DirTab].LookupTab = LookupTables[1],
                          ![DirTab].AddressTab = AddressTables[1]]
  /\ impPc' = "done"
  /\ UNCHANGED <<Symbols, DLLName, DirTab, HintNameTables, LookupTables,
                 AddressTables, impI>>
  /\ UNCHANGED notImportVars

(***************************************************************************)
(* ObjectFile::ObjectFile: initializeChunks, then initializeSymbols, one   *)
(* action per loop iteration.                                              *)
(***************************************************************************)
\* ".drectve", ".debug" and ".debug$S" as character codes.
NameDrectve == <<46, 100, 114, 101, 99, 116, 118, 101>>
NameDebug == <<46, 100, 101, 98, 117, 103>>
NameDebugS == <<46, 100, 101, 98, 117, 103, 36, 83>>

startswith(Name, Prefix) ==
  Len(Name) >= Len(Prefix) /\ SubSeq(Name, 1, Len(Prefix)) = Prefix

\* What getSection and getSectionName yield for a section ("ok", or which
\* of the two fails), its name and its IMAGE_SCN_LNK_REMOVE bit.
SectionInputs ==
  [read : {"ok"}, Name : {NameText, NameDrectve, NameDebugS}, Remove : {FALSE}]
    \cup [read : {"ok"}, Name : {NameText}, Remove : {TRUE}]
    \cup [read : {"getSection", "getSectionName"}, Name : {NameText},
          Remove : {FALSE}]

\* What getSymbol and getSymbolName yield for a symbol, its name, and its
\* section number (0 undefined, -1 absolute).  The symbols have no
\* auxiliary records and are neither common nor weak external.
SymbolInputs ==
  [read : {"ok"}, Name : {"main"}, SectionNumber : {-1, 0, 1, 2}]
    \cup [read : {"ok"}, Name : {"@comp.id"}, SectionNumber : {-1}]
    \cup [read : {"getSymbol", "getSymbolName"}, Name : {"main"},
          SectionNumber : {1}]

COFFFiles ==
  {f \in [sections : UNION {[1..n -> SectionInputs] : n \in 0..MaxObjSections},
          symbols : UNION {[1..m -> SymbolInputs] : m \in 0..MaxObjSymbols}] :
     \A i \in 1..Len(f.symbols) :
       f.symbols[i].SectionNumber <= Len(f.sections)}

NoBody == [kind |-> "null", Name |-> "", Chunk |-> 0]

\* ObjectFile::createSymbolBody for a symbol without auxiliary record.
createSymbolBody(Name, Sym, chunks) ==
  IF Sym.SectionNumber = 0
  THEN [kind |-> "Undefined", Name |-> Name, Chunk |-> 0]
  ELSE IF Sym.SectionNumber = -1
  THEN [kind |-> "DefinedAbsolute", Name |-> Name, Chunk |-> 0]
  ELSE IF chunks[Sym.SectionNumber] # 0
  THEN [kind |-> "DefinedRegular", Name |-> Name,
        Chunk |-> chunks[Sym.SectionNumber]]
  ELSE NoBody

ObjectInit ==
  /\ \E f \in COFFFiles :
       /\ COFFSections = f.sections
       /\ COFFSymbols = f.symbols
  /\ ObjChunks = <<>>
  /\ Directives = FALSE
  /\ SparseSymbolBodies = <<>>
  /\ SymbolBodies = <<>>
  /\ LastSectionNumber = 0
  /\ objPc = "ObjectFile"
  /\ objI = 0

\* Chunks.resize(NumSections + 1): Chunks[I] is ObjChunks[I], I >= 1
\* (Chunks[0] stays empty).
resizeChunks ==
  /\ objPc = "ObjectFile"
  /\ ObjChunks' = [I \in 1..Len(COFFSections) |-> 0]
  /\ objI' = 1
  /\ objPc' = "initializeChunks"
  /\ UNCHANGED <<COFFSections, COFFSymbols, Directives, SparseSymbolBodies,
                 SymbolBodies, LastSectionNumber>>
  /\ UNCHANGED notObjectVars

\* One iteration of the loop of initializeChunks, or its end.
initializeChunks ==
  /\ objPc = "initializeChunks"
  /\ IF objI > Len(COFFSections)
     THEN /\ objPc' = "resizeSymbols"
          /\ UNCHANGED <<ObjChunks, Directives, objI>>
     ELSE LET Sec == COFFSections[objI]
          IN IF Sec.read # "ok"
             THEN \* the diagnostic, and return
                  /\ objPc' = "resizeSymbols"
                  /\ UNCHANGED <<ObjChunks, Directives, objI>>
             ELSE /\ objPc' = objPc
                  /\ objI' = objI + 1
                  /\ IF Sec.Name = NameDrectve
                     THEN Directives' = TRUE /\ UNCHANGED ObjChunks
                     ELSE /\ UNCHANGED Directives
                          /\ IF startswith(Sec.Name, NameDebug) \/ Sec.Remove
                             THEN UNCHANGED ObjChunks
                             ELSE ObjChunks' = [ObjChunks EXCEPT ![objI] = objI]
  /\ UNCHANGED <<COFFSections, COFFSymbols, SparseSymbolBodies, SymbolBodies,
                 LastSectionNumber>>
  /\ UNCHANGED notObjectVars

\* SparseSymbolBodies.resize(NumSymbols): symbol I of the file is
\* SparseSymbolBodies[I + 1].
resizeSymbols ==
  /\ objPc = "resizeSymbols"
  /\ SparseSymbolBodies' = [I \in 1..Len(COFFSymbols) |-> NoBody]
  /\ LastSectionNumber' = 0
  /\ objI' = 1
  /\ objPc' = "initializeSymbols"
  /\ UNCHANGED <<COFFSections, COFFSymbols, ObjChunks, Directives,
                 SymbolBodies>>
  /\ UNCHANGED notObjectVars

\* One iteration of the loop of initializeSymbols, or its end.
initializeSymbols ==
  /\ objPc = "initializeSymbols"
  /\ IF objI > Len(COFFSymbols)
     THEN /\ objPc' = "done"
          /\ UNCHANGED <<SparseSymbolBodies, SymbolBodies, LastSectionNumber,
                         objI>>
     ELSE LET Sym == COFFSymbols[objI]
              Body == createSymbolBody(Sym.Name, Sym, ObjChunks)
          IN IF Sym.read # "ok"
             THEN \* the diagnostic, and break
                  /\ objPc' = "done"
                  /\ UNCHANGED <<SparseSymbolBodies, SymbolBodies,
                                 LastSectionNumber, objI>>
             ELSE /\ objPc' = objPc
                  /\ objI' = objI + 1
                  /\ IF Sym.Name = "@comp.id" \/ Sym.Name = "@feat.00"
                     THEN UNCHANGED <<SparseSymbolBodies, SymbolBodies,
                                      LastSectionNumber>>
                     ELSE /\ LastSectionNumber' = Sym.SectionNumber
                          /\ IF Body # NoBody
                             THEN /\ SparseSymbolBodies' =
                                       [SparseSymbolBodies EXCEPT ![objI] = Body]
                                  /\ SymbolBodies' = Append(SymbolBodies, Body)
                             ELSE UNCHANGED <<SparseSymbolBodies, SymbolBodies>>
  /\ UNCHANGED <<COFFSections, COFFSymbols, ObjChunks, Directives>>
  /\ UNCHANGED notObjectVars

(***************************************************************************)
(* The specifications.  Each runs one component and leaves the others in   *)
(* their idle state.                                                       *)
(***************************************************************************)
WriterIdle ==
  /\ Sections = <<>>
  /\ OutputSections = <<>>
  /\ EndOfSectionTable = 0
  /\ SectionTotalSizeDisk = 0
  /\ SectionTotalSizeMemory = 0
  /\ Buffer = Null
  /\ SectionTable = <<>>
  /\ PE = NoPE
  /\ pc = "idle"
  /\ trace = <<>>
  /\ ub = {}

ArchiveIdle ==
  /\ arMember = [s \in ArchiveSymbols |-> 0]
  /\ arReadable = [m \in ArchiveMembers |-> FALSE]
  /\ Seen = {}
  /\ calls = <<>>

LiveIdle ==
  /\ Relocs = [c \in Chunks |-> <<>>]
  /\ AssocParent = [c \in Chunks |-> 0]
  /\ IsAssocChild = [c \in Chunks |-> FALSE]
  /\ AssocChildren = [c \in Chunks |-> <<>>]
  /\ Live = [c \in Chunks |-> FALSE]
  /\ stack = <<>>
  /\ roots = <<>>
  /\ LiveAtCall = [c \in Chunks |-> FALSE]
  /\ steps = 0

RelocIdle ==
  /\ Config = [ImageBase |-> <<>>]
  /\ OutBuf = <<>>
  /\ RelChunk =
       [RVA |-> 0, FileOff |-> 0, Size |-> 0, OutRVA |-> 0, OutIndex |-> 0]
  /\ LastRel = NoRel
  /\ OutBufBefore = <<>>
  /\ Fatal = FALSE
  /\ applied = 0

ImportIdle ==
  /\ Symbols = <<>>
  /\ heap = <<>>
  /\ DLLName = 0
  /\ DirTab = 0
  /\ HintNameTables = <<>>
  /\ LookupTables = <<>>
  /\ AddressTables = <<>>
  /\ impPc = "idle"
  /\ impI = 0

ObjectIdle ==
  /\ COFFSections = <<>>
  /\ COFFSymbols = <<>>
  /\ ObjChunks = <<>>
  /\ Directives = FALSE
  /\ SparseSymbolBodies = <<>>
  /\ SymbolBodies = <<>>
  /\ LastSectionNumber = 0
  /\ objPc = "idle"
  /\ objI = 0

InitWriter ==
  /\ WriterInit
  /\ ArchiveIdle /\ LiveIdle /\ RelocIdle /\ ImportIdle /\ ObjectIdle
NextWriter == WriterStep
SpecWriter == InitWriter /\ [][NextWriter]_vars

InitArchive ==
  /\ ArchiveInit
  /\ WriterIdle /\ LiveIdle /\ RelocIdle /\ ImportIdle /\ ObjectIdle
NextArchive == CallGetMember
SpecArchive == InitArchive /\ [][NextArchive]_vars

InitLive ==
  /\ LiveInit
  /\ WriterIdle /\ ArchiveIdle /\ RelocIdle /\ ImportIdle /\ ObjectIdle
NextLive == CallMarkLive \/ markLive
SpecLive == InitLive /\ [][NextLive]_vars

InitReloc ==
  /\ RelocInit
  /\ WriterIdle /\ ArchiveIdle /\ LiveIdle /\ ImportIdle /\ ObjectIdle
NextReloc == applyRelocations
SpecReloc == InitReloc /\ [][NextReloc]_vars

InitImport ==
  /\ ImportInit
  /\ WriterIdle /\ ArchiveIdle /\ LiveIdle /\ RelocIdle /\ ObjectIdle
NextImport ==
  createHeader \/ pushHintName \/ pushLookup \/ setLocation \/ setDirTab
SpecImport == InitImport /\ [][NextImport]_vars

InitObject ==
  /\ ObjectInit
  /\ WriterIdle /\ ArchiveIdle /\ LiveIdle /\ RelocIdle /\ ImportIdle
NextObject ==
  resizeChunks \/ initializeChunks \/ resizeSymbols \/ initializeSymbols
SpecObject == InitObject /\ [][NextObject]_vars

(***************************************************************************)
(* Claims about ArchiveFile::getMember, checked under SpecArchive.         *)
(***************************************************************************)
\* C1: over the getMember calls made on one archive, each member's buffer
\* is returned by at most one call, and every call made after it with a
\* symbol of that member returns the empty reference.
C1_MemberHandedOutAtMostOnce ==
  /\ \A m \in ArchiveMembers :
       Cardinality({i \in 1..Len(calls) : calls[i].result = BufferOf(m)}) <= 1
  /\ \A i, j \in 1..Len(calls) :
       (/\ i < j
        /\ calls[i].result.kind = "buffer"
        /\ arMember[calls[j].Sym] = calls[i].result.member)
         => calls[j].result = EmptyRef

\* C1 witness: a call returned a member's buffer and a later call with
\* another symbol of the same member returned the empty reference.
C1_Witness ==
  \E i, j \in 1..Len(calls) :
    /\ i < j
    /\ calls[i].result.kind = "buffer"
    /\ calls[j].Sym # calls[i].Sym
    /\ arMember[calls[j].Sym] = calls[i].result.member
    /\ calls[j].result = EmptyRef

(***************************************************************************)
(* Claims about liveness, checked under SpecLive.                          *)
(***************************************************************************)
\* The chunks one step from c: the chunks owning the Defined bodies its
\* relocations target, and the chunks registered as its children.
Targets(c) ==
  {s \in Range(Relocs[c]) : s \in Chunks} \cup {d \in Chunks : AssocParent[d] = c}

RECURSIVE Closure(_)
Closure(S) ==
  LET T == S \cup UNION {Targets(c) : c \in S}
  IN IF T = S THEN S ELSE Closure(T)

LiveSet == {c \in Chunks : Live[c]}

RECURSIVE SumLen(_, _)
SumLen(f, c) == IF c > NumChunks THEN 0 ELSE Len(f[c]) + SumLen(f, c + 1)

\* Steps one call of markLive can take: every chunk is walked at most once
\* (entry, its relocations, its children, return) and every edge and the
\* call itself enter a chunk at most once more.
WorkBound ==
  2 * NumChunks + 2 * (SumLen(Relocs, 1) + SumLen(AssocChildren, 1)) + 1

\* C7: a call of markLive ends (it always has a next step until it returns,
\* and takes at most WorkBound steps, cycles or not); when the calls made so
\* far have returned, the live chunks are exactly those reachable from the
\* chunks markLive was called on; a call on a chunk that was live already
\* changes nothing.
C7_MarkLiveIsTheClosure ==
  /\ steps <= WorkBound
  /\ stack # <<>> => ENABLED markLive
  /\ stack = <<>> => LiveSet = Closure(Range(roots))
  /\ (stack = <<>> /\ roots # <<>> /\ LiveAtCall[roots[Len(roots)]])
       => Live = LiveAtCall

\* C7 witness: two calls have returned, the chunks form a cycle through a
\* relocation and an associative link, and the second call was on a chunk
\* already live.
C7_Witness ==
  /\ stack = <<>>
  /\ Len(roots) = 2
  /\ LiveAtCall[roots[2]]
  /\ \E c, d \in Chunks :
       /\ c # d
       /\ c \in Range(Relocs[d])
       /\ AssocParent[d] = c
       /\ Live[c]

\* C8 as stated: after propagation from roots (no root is an associative
\* child), a child registered by addAssociative is live iff its parent is.
C8_ChildLiveIffParentLive ==
  (stack = <<>> /\ \A i \in 1..Len(roots) : ~IsAssocChild[roots[i]]) =>
    \A c \in Chunks :
      AssocParent[c] # 0 => (Live[c] <=> Live[AssocParent[c]])

\* C8 amended: after propagation, a child registered by addAssociative is
\* live if its parent is live.
C8_ParentLiveImpliesChildLive ==
  stack = <<>> =>
    \A c \in Chunks :
      (AssocParent[c] # 0 /\ Live[AssocParent[c]]) => Live[c]

\* C8 witness: a child is live after propagation that no call and no
\* relocation reaches: it is live through its parent only.
C8_Witness ==
  /\ stack = <<>>
  /\ \E c \in Chunks :
       /\ AssocParent[c] \notin {0, c}
       /\ Live[AssocParent[c]]
       /\ Live[c]
       /\ c \notin Range(roots)
       /\ \A d \in Chunks : c \notin Range(Relocs[d])

(***************************************************************************)
(* Relocation arithmetic, stated over 16-bit limbs of the patched field    *)
(* and integer displacements.                                              *)
(***************************************************************************)
Limbs(b) == [i \in 1..(Len(b) \div 2) |-> b[2 * i - 1] + 256 * b[2 * i]]

RECURSIVE AddLimbs(_, _, _)
AddLimbs(a, b, carry) ==
  IF a = <<>> THEN <<>>
  ELSE LET t == Head(a) + Head(b) + carry
       IN <<t % 65536>> \o AddLimbs(Tail(a), Tail(b), t \div 65536)

\* The n limbs of the two's complement of v, |v| < 2^31.
IntLimbs(v, n) ==
  [i \in 1..n |->
     CASE i = 1 -> v % 65536
       [] i = 2 -> (v \div 65536) % 65536
       [] OTHER -> IF v < 0 THEN 65535 ELSE 0]

Rel32K ==
  [t \in {"REL32", "REL32_1", "REL32_2", "REL32_3", "REL32_4", "REL32_5"} |->
     CASE t = "REL32" -> 0 [] t = "REL32_1" -> 1 [] t = "REL32_2" -> 2
       [] t = "REL32_3" -> 3 [] t = "REL32_4" -> 4 [] t = "REL32_5" -> 5]

Supported ==
  DOMAIN Rel32K \cup {"ADDR32NB", "ADDR32", "ADDR64", "SECTION", "SECREL"}

\* C10: the relocation applied last replaced the field at
\* FileOff + VirtualAddress: REL32 and REL32_k by
\* (old + S - P - (4 + k)) mod 2^32 with P = RVA + VirtualAddress, ADDR32NB
\* by (old + S) mod 2^32, ADDR32 by (old + ImageBase + S) mod 2^32, ADDR64 by
\* (old + ImageBase + S) mod 2^64; a fatal error was reported exactly when
\* the type is none of these, SECTION and SECREL.
C10_RelocationArithmetic ==
  LastRel.Type # "none" =>
    LET Off == RelChunk.FileOff + LastRel.VirtualAddress
        P == RelChunk.RVA + LastRel.VirtualAddress
        old4 == Limbs(read(OutBufBefore, Off, 4))
        new4 == Limbs(read(OutBuf, Off, 4))
        old8 == Limbs(read(OutBufBefore, Off, 8))
        new8 == Limbs(read(OutBuf, Off, 8))
        BaseS == AddLimbs(Limbs(Config.ImageBase), IntLimbs(LastRel.S, 4), 0)
    IN /\ LastRel.Type \in DOMAIN Rel32K =>
            new4 = AddLimbs(old4,
                     IntLimbs(LastRel.S - P - (4 + Rel32K[LastRel.Type]), 2),
                     0)
       /\ LastRel.Type = "ADDR32NB" =>
            new4 = AddLimbs(old4, IntLimbs(LastRel.S, 2), 0)
       /\ LastRel.Type = "ADDR32" =>
            new4 = AddLimbs(old4, SubSeq(BaseS, 1, 2), 0)
       /\ LastRel.Type = "ADDR64" => new8 = AddLimbs(old8, BaseS, 0)
       /\ Fatal <=> LastRel.Type \notin Supported

\* C10 witness: a second relocation, of type REL32_5 with its target below
\* the patched place (a negative displacement), was added to a field that
\* held a non-zero addend.
C10_Witness ==
  /\ applied = 2
  /\ ~Fatal
  /\ LastRel.Type = "REL32_5"
  /\ LastRel.S < RelChunk.RVA + LastRel.VirtualAddress
  /\ read(OutBufBefore,
          RelChunk.FileOff + LastRel.VirtualAddress, 4) # <<0, 0, 0, 0>>
  /\ OutBuf # OutBufBefore

\* The bytes of the buffer that belong to the chunk patched:
\* [FileOff, FileOff + Size), counted from 1.
InChunk(i) == i > RelChunk.FileOff /\ i <= RelChunk.FileOff + RelChunk.Size

\* C11: the relocation applied last changed no byte of the output buffer
\* outside [C.FileOff, C.FileOff + C.size), whatever its VirtualAddress and
\* type, an 8-byte ADDR64 patch near the end of the chunk included.
C11_RelocationIsLocal ==
  LastRel.Type # "none" =>
    \A i \in 1..Len(OutBuf) : ~InChunk(i) => OutBuf[i] = OutBufBefore[i]

\* A terminator slot: a chunk of 8 zero bytes that refers to no hint/name.
IsTerminator(c) == heap[c].Ref = 0 /\ heap[c].Size = 8

\* C12: when the constructor returns (n >= 1 symbols of one DLL), there is
\* one HintNameChunk per symbol, the i-th symbol's location is the i-th
\* address-table LookupChunk, which refers to the i-th symbol's
\* HintNameChunk, and the lookup table and the address table each hold
\* n + 1 slots of which the last is the all-zero terminator.
C12_TablesBuiltAndTerminated ==
  impPc = "done" =>
    LET n == Len(Symbols)
    IN /\ Len(HintNameTables) = n
       /\ \A i \in 1..n :
            /\ heap[HintNameTables[i]].kind = "HintName"
            /\ heap[HintNameTables[i]].Name = Symbols[i].ExportName
            /\ Symbols[i].Location = AddressTables[i]
            /\ heap[AddressTables[i]].Ref = HintNameTables[i]
            /\ heap[LookupTables[i]].Ref = HintNameTables[i]
       /\ Len(LookupTables) = n + 1
       /\ Len(AddressTables) = n + 1
       /\ IsTerminator(LookupTables[n + 1])
       /\ IsTerminator(AddressTables[n + 1])

\* A section that can be read and that no filter of initializeChunks drops.
WantsChunk(Sec) ==
  /\ Sec.read = "ok"
  /\ Sec.Name # NameDrectve
  /\ ~startswith(Sec.Name, NameDebug)
  /\ ~Sec.Remove

\* C13: only the malformed section or symbol is skipped.  When
\* initializeChunks has returned, every well-formed section that is not
\* filtered has its SectionChunk at its index, also after a section that
\* could not be read; when initializeSymbols has returned, every
\* well-formed symbol that has a body has it in the sparse table (and in
\* SymbolBodies), also after a symbol that could not be read.
C13_OnlyTheMalformedIsSkipped ==
  /\ objPc \in {"resizeSymbols", "initializeSymbols", "done"} =>
       \A j \in 1..Len(COFFSections) :
         WantsChunk(COFFSections[j]) => ObjChunks[j] = j
  /\ objPc = "done" =>
       \A i \in 1..Len(COFFSymbols) :
         LET Sym == COFFSymbols[i]
             Body == createSymbolBody(Sym.Name, Sym, ObjChunks)
         IN (Sym.read = "ok" /\ Sym.Name \notin {"@comp.id", "@feat.00"}
             /\ Body # NoBody) =>
              /\ SparseSymbolBodies[i] = Body
              /\ \E k \in 1..Len(SymbolBodies) : SymbolBodies[k] = Body

\* C14: after groupSections and assignAddresses, within every OutputSection
\* the chunks' RVAs and FileOffsets are non-decreasing along the section's
\* stably name-sorted chunk list, whatever the input order inside the group
\* was.  (Stated for the runs without undefined behaviour.)
C14_SortDeterminesLayout ==
  (Invoked("assignAddresses") /\ ub = {}) =>
    \A k \in 1..Len(OutputSections) :
      LET L == OutputSections[k].Sections
      IN \A a \in 1..(Len(L) - 1) :
           /\ Sections[L[a]].RVA <= Sections[L[a + 1]].RVA
           /\ Sections[L[a]].FileOffset <= Sections[L[a + 1]].FileOffset

\* The byte ranges [RVA, RVA + Size) of chunks i and j have a byte in common.
Overlap(i, j) ==
  /\ Sections[i].RVA < Sections[j].RVA + Sections[j].Size
  /\ Sections[j].RVA < Sections[i].RVA + Sections[i].Size

\* C15: after assignAddresses every chunk's RVA is a multiple of the chunk's
\* own alignment 1 << (field - 1), for the alignments 1 to 8192 bytes, and
\* the byte ranges of two distinct chunks of non-zero size do not overlap.
\* (Stated for the runs without undefined behaviour, which have no chunk
\* with the field value 0.)
C15_AlignedAndDisjoint ==
  (Invoked("assignAddresses") /\ ub = {}) =>
    /\ \A i \in 1..Len(Sections) :
         Sections[i].RVA % Pow2(Sections[i].AlignField - 1) = 0
    /\ \A i, j \in 1..Len(Sections) :
         (i # j /\ Sections[i].Size > 0 /\ Sections[j].Size > 0) =>
           ~Overlap(i, j)

====
